---------------------------- MODULE Spec2Model ----------------------------
(***************************************************************************)
(* Model of the slack-go-webhook package (final revision,                  *)
(* src/unnamed/part_000): the Send retry loop with its shared backoff      *)
(* interval, the status-code tally guarded by statusCodeLock, and the      *)
(* ticker lifecycle (StartTicker / StopTicker and the reporting            *)
(* goroutine).                                                             *)
(*                                                                         *)
(* Durations are counted in milliseconds (time.Millisecond = 1).           *)
(* Every access to a package-level variable that the code makes without    *)
(* holding a lock is a step of its own, so that interleavings of           *)
(* concurrent calls show the unsynchronised reads and writes.              *)
(***************************************************************************)
EXTENDS Integers, Sequences, FiniteSets, TLC

(* ------------------------------ bounds --------------------------------- *)

\* Requests issued over a run, by all Send calls together: with concurrent
\* callers, and with one caller.
MaxRequests == 2
MaxSeqRequests == 4
MaxFairRequests == 1

\* The caller's threads.
Threads == {"t1", "t2"}

(* --------------------------- program constants ------------------------- *)

\* time.Second, in milliseconds.
Second == 1000

\* http.StatusTooManyRequests
StatusTooManyRequests == 429

\* The ceiling of the growth without a Retry-After header: 4*time.Second.
NoHeaderCeiling == 4 * Second

(* ------------------------------- inputs -------------------------------- *)

\* Values of the tunable parameters before first use: the defaults
\* (100ms, 100ms, 1ms), an interval at the floor, one just under the 4s
\* ceiling, and a decrement larger than the interval.
InitIntervals == {0, 100, 3950}
InitIncrements == {100}
InitDecrements == {1, 150}

\* Status codes the endpoint answers with.
StatusCodes == {200, 400, StatusTooManyRequests, 500}

\* Retry-After header values, as character sequences; <<>> is "no header"
\* (Header.Get returns "").
RetryAfterHeaders ==
    { <<>>, <<"2">>, <<"-", "1">>, <<"5">>, <<"1", "x">> }

\* The proxy argument of Send: none, a URL that parses, one that does not.
Proxies == {"", "http://proxy", "%zz"}

\* Responses: the header is read only on a 429 (part_000:157-158).
Responses ==
    { [code |-> c, header |-> h] :
        c \in StatusCodes, h \in RetryAfterHeaders } \
    { [code |-> c, header |-> h] :
        c \in StatusCodes \ {StatusTooManyRequests},
        h \in RetryAfterHeaders \ {<<>>} }

NoResponse == [code |-> 0, header |-> <<>>]

\* The inputs of the runs with concurrent callers, and the one caller of the
\* runs without.
ConcIntervals == {100}
ConcDecrements == {1}
ConcResponses ==
    { [code |-> 200, header |-> <<>>],
      [code |-> StatusTooManyRequests, header |-> <<>>],
      [code |-> StatusTooManyRequests, header |-> <<"1", "x">>],
      [code |-> 500, header |-> <<>>] }
ConcProxies == {"", "%zz"}
\* What the callers are given and answered where the scheduling is at stake.
FairResponses == { [code |-> 200, header |-> <<>>] }
FairProxies == {""}
SeqThreads == {"t1"}

(* --------------------------- pure functions ---------------------------- *)

RECURSIVE MinLoop(_, _)
MinLoop(min, vars) ==
    IF vars = <<>> THEN min
    ELSE MinLoop(IF min > Head(vars) THEN Head(vars) ELSE min, Tail(vars))

\* A plausible slip: the comparison turned around.
MinDurationFlipped(vars) ==
    LET RECURSIVE Loop(_, _)
        Loop(m, vs) ==
            IF vs = <<>> THEN m
            ELSE Loop(IF m < Head(vs) THEN Head(vs) ELSE m, Tail(vs))
    IN  Loop(vars[1], vars)

\* MinDuration(vars ...time.Duration): min := vars[0]; the loop lowers it.
MinDuration(vars) == MinLoop(vars[1], vars)

RECURSIVE MaxLoop(_, _)
MaxLoop(max, vars) ==
    IF vars = <<>> THEN max
    ELSE MaxLoop(IF max < Head(vars) THEN Head(vars) ELSE max, Tail(vars))

\* A plausible slip: the floor forgotten, the last argument returned.
MaxDurationNoFloor(vars) == vars[Len(vars)]

\* MaxDuration(vars ...time.Duration): max := vars[0]; the loop raises it.
MaxDuration(vars) == MaxLoop(vars[1], vars)

DigitChars == {"0", "1", "2", "3", "4", "5", "6", "7", "8", "9"}

DigitVal(c) ==
    CASE c = "0" -> 0 [] c = "1" -> 1 [] c = "2" -> 2 [] c = "3" -> 3
      [] c = "4" -> 4 [] c = "5" -> 5 [] c = "6" -> 6 [] c = "7" -> 7
      [] c = "8" -> 8 [] c = "9" -> 9

RECURSIVE ParseDigits(_, _)
ParseDigits(s, acc) ==
    IF s = <<>> THEN [ok |-> TRUE, val |-> acc]
    ELSE IF Head(s) \in DigitChars
         THEN ParseDigits(Tail(s), acc * 10 + DigitVal(Head(s)))
         ELSE [ok |-> FALSE, val |-> 0]

\* A plausible slip: the parse error ignored, the value read as 0.
AtoiLenient(s) ==
    LET signed == s # <<>> /\ Head(s) \in {"+", "-"}
        digits == IF signed THEN Tail(s) ELSE s
        r      == ParseDigits(digits, 0)
    IN  [ok |-> TRUE,
         val |-> IF digits = <<>> \/ ~r.ok THEN 0
                 ELSE IF Head(s) = "-" THEN 0 - r.val ELSE r.val]

\* strconv.Atoi: an optional sign, then one or more decimal digits; anything
\* else is an error.
Atoi(s) ==
    LET signed == s # <<>> /\ Head(s) \in {"+", "-"}
        digits == IF signed THEN Tail(s) ELSE s
        r      == ParseDigits(digits, 0)
    IN  IF digits = <<>> \/ ~r.ok
        THEN [ok |-> FALSE, val |-> 0]
        ELSE [ok |-> TRUE,
              val |-> IF Head(s) = "-" THEN 0 - r.val ELSE r.val]

\* url.Parse(proxy) of Send, for the proxies of the model.
ProxyParses(proxy) == proxy # "%zz"

(* ------------------------------- state --------------------------------- *)

VARIABLES
    \* package-level variables (part_000:74-86)
    StatusCodeRetryInterval,
    StatusCodeRetryIntervalIncrement,
    StatusCodeRetryIntervalDecrement,
    statusCodeMap,          \* map[int]int: a function on the codes seen
    statusCodeLock,         \* "free", or who holds the mutex
    statusCodeTicker,       \* "nil", "running" (NewTicker) or "stopped" (Stop)
    tickerC,                \* a tick waits in statusCodeTicker.C (capacity 1)
    transportProxy,         \* HttpClient.Transport's proxy, "" when none
    debug,                  \* SLACK_GO_WEBHOOK_DEBUG is set
    \* the reporting goroutine of StartTicker
    gpc,
    printed,                \* the tally logged by reportStatusCodes at this tick
    \* the process
    panicked,               \* a nil dereference has ended the process
    \* each thread: where it is, and the locals of its Send call
    pc,
    proxyArg,               \* the proxy argument
    resp,                   \* resp of HttpClient.Do
    cur,                    \* the StatusCodeRetryInterval read for the update
    errs,                   \* the []error returned
    \* history, for stating the properties
    reqs,                   \* HttpClient.Do calls of the Send call
    sleeps,                 \* time.Sleep calls of the Send call
    slept,                  \* duration asked of its last time.Sleep
    hist,                   \* responses received by the Send call
    start,                  \* StatusCodeRetryInterval when Send was called
    maxRetryAfter,          \* largest Retry-After seconds parsed, 0 at first
    budget,                 \* requests the run may still issue
    tickersCreated,         \* time.NewTicker calls so far
    goroutinesCreated       \* go statements executed so far

globals ==
    << StatusCodeRetryInterval, StatusCodeRetryIntervalIncrement,
       StatusCodeRetryIntervalDecrement, statusCodeMap, statusCodeLock,
       statusCodeTicker, tickerC, transportProxy, debug >>

locals == << pc, proxyArg, resp, cur, errs >>

history ==
    << reqs, sleeps, slept, hist, start, maxRetryAfter,
       budget, tickersCreated, goroutinesCreated >>

vars == << globals, gpc, printed, panicked, locals, history >>

\* The empty map of make(map[int]int).
EmptyMap == [c \in {} |-> 0]

InSend == {"request", "incr_lock", "incr", "sleep", "eval", "store", "done"}

\* The state after package initialisation, the tunable parameters set from
\* the given values, with n requests to follow.
InitFrom(intervals, increments, decrements, n) ==
    /\ StatusCodeRetryInterval \in intervals
    /\ StatusCodeRetryIntervalIncrement \in increments
    /\ StatusCodeRetryIntervalDecrement \in decrements
    /\ statusCodeMap = EmptyMap
    /\ statusCodeLock = "free"
    /\ statusCodeTicker = "nil"
    /\ tickerC = FALSE
    /\ transportProxy = ""
    /\ debug \in BOOLEAN
    /\ gpc = "none"
    /\ printed = EmptyMap
    /\ panicked = FALSE
    /\ pc = [t \in Threads |-> "idle"]
    /\ proxyArg = [t \in Threads |-> ""]
    /\ resp = [t \in Threads |-> NoResponse]
    /\ cur = [t \in Threads |-> 0]
    /\ errs = [t \in Threads |-> <<>>]
    /\ reqs = [t \in Threads |-> 0]
    /\ sleeps = [t \in Threads |-> 0]
    /\ slept = [t \in Threads |-> 0]
    /\ hist = [t \in Threads |-> <<>>]
    /\ start = [t \in Threads |-> 0]
    /\ maxRetryAfter = 0
    /\ budget = n
    /\ tickersCreated = 0
    /\ goroutinesCreated = 0

(* ------------------------------- errors -------------------------------- *)

ProxyError == [kind |-> "proxy", code |-> 0]
NewRequestError == [kind |-> "newrequest", code |-> 0]
TransportError == [kind |-> "transport", code |-> 0]
RetryAfterError == [kind |-> "retryafter", code |-> 0]

\* A plausible slip: the status left out of the error.
StatusErrorWithoutCode(code) == [kind |-> "status", code |-> 0]

\* fmt.Errorf("Error sending msg. Status: %v", resp.StatusCode)
StatusError(code) == [kind |-> "status", code |-> code]

(* -------------------------------- Send --------------------------------- *)

\* Send is entered: payload marshalled (a Payload of strings and booleans
\* always marshals), the proxy parsed and installed in the shared client.
CallSend(t, proxy) ==
    /\ ~panicked
    /\ pc[t] = "idle"
    /\ proxyArg' = [proxyArg EXCEPT ![t] = proxy]
    /\ IF proxy # "" /\ ~ProxyParses(proxy)
       THEN /\ pc' = [pc EXCEPT ![t] = "done"]
            /\ errs' = [errs EXCEPT ![t] = << ProxyError >>]
            /\ UNCHANGED transportProxy
       ELSE /\ pc' = [pc EXCEPT ![t] = "request"]
            /\ errs' = [errs EXCEPT ![t] = <<>>]
            /\ transportProxy' = IF proxy # "" THEN proxy ELSE transportProxy
    /\ resp' = [resp EXCEPT ![t] = NoResponse]
    /\ reqs' = [reqs EXCEPT ![t] = 0]
    /\ sleeps' = [sleeps EXCEPT ![t] = 0]
    /\ slept' = [slept EXCEPT ![t] = 0]
    /\ hist' = [hist EXCEPT ![t] = <<>>]
    /\ start' = [start EXCEPT ![t] = StatusCodeRetryInterval]
    /\ UNCHANGED << StatusCodeRetryInterval, StatusCodeRetryIntervalIncrement,
                    StatusCodeRetryIntervalDecrement, statusCodeMap,
                    statusCodeLock, statusCodeTicker, tickerC, debug, gpc,
                    printed, panicked, cur, maxRetryAfter, budget,
                    tickersCreated,
                    goroutinesCreated >>

\* What no step of the Send loop changes, and what none but a request does.
loopFrame ==
    << StatusCodeRetryIntervalIncrement, StatusCodeRetryIntervalDecrement,
       statusCodeTicker, tickerC, transportProxy, debug, gpc, printed,
       panicked, proxyArg, start, tickersCreated,
       goroutinesCreated >>

sendFrame == << loopFrame, budget >>

\* http.NewRequest fails on a URL it cannot parse: with the same arguments
\* in every iteration, in the first iteration or never.
NewRequestFails(t) ==
    /\ ~panicked
    /\ pc[t] = "request"
    /\ reqs[t] = 0
    /\ pc' = [pc EXCEPT ![t] = "done"]
    /\ errs' = [errs EXCEPT ![t] = << NewRequestError >>]
    /\ UNCHANGED << StatusCodeRetryInterval, statusCodeMap, statusCodeLock,
                    resp, cur, reqs, sleeps, slept, hist, maxRetryAfter, sendFrame >>

\* A plausible slip: the failed request tried again.
DoFailsAndRetries(t) ==
    /\ ~panicked
    /\ pc[t] = "request"
    /\ budget > 0
    /\ budget' = budget - 1
    /\ reqs' = [reqs EXCEPT ![t] = @ + 1]
    /\ UNCHANGED << StatusCodeRetryInterval, statusCodeMap, statusCodeLock,
                    pc, errs, resp, cur, sleeps, slept, hist, maxRetryAfter,
                    loopFrame >>

\* HttpClient.Do returns an error: no response.
DoFails(t) ==
    /\ ~panicked
    /\ pc[t] = "request"
    /\ budget > 0
    /\ budget' = budget - 1
    /\ reqs' = [reqs EXCEPT ![t] = @ + 1]
    /\ pc' = [pc EXCEPT ![t] = "done"]
    /\ errs' = [errs EXCEPT ![t] = << TransportError >>]
    /\ UNCHANGED << StatusCodeRetryInterval, statusCodeMap, statusCodeLock,
                    resp, cur, sleeps, slept, hist, maxRetryAfter, loopFrame >>

\* A plausible slip: every response recorded, whatever the flag.
TelemetryAlways == TRUE

\* The telemetry flag, read after each response (os.Getenv).
TelemetryEnabled == debug

\* HttpClient.Do returns the response r.
DoRequest(t, r) ==
    /\ ~panicked
    /\ pc[t] = "request"
    /\ budget > 0
    /\ budget' = budget - 1
    /\ reqs' = [reqs EXCEPT ![t] = @ + 1]
    /\ resp' = [resp EXCEPT ![t] = r]
    /\ hist' = [hist EXCEPT ![t] = Append(@, r)]
    /\ pc' = [pc EXCEPT ![t] = IF TelemetryEnabled THEN "incr_lock" ELSE "sleep"]
    /\ UNCHANGED << StatusCodeRetryInterval, statusCodeMap, statusCodeLock,
                    cur, errs, sleeps, slept, maxRetryAfter, loopFrame >>

\* incrementStatusCode: statusCodeLock.Lock()
IncrementLock(t) ==
    /\ ~panicked
    /\ pc[t] = "incr_lock"
    /\ statusCodeLock = "free"
    /\ statusCodeLock' = t
    /\ pc' = [pc EXCEPT ![t] = "incr"]
    /\ UNCHANGED << StatusCodeRetryInterval, statusCodeMap, resp, cur, errs,
                    reqs, sleeps, slept, hist, maxRetryAfter, sendFrame >>

\* A plausible slip: the first count of a code stored as 0.
IncrementedFromZero(m, code) ==
    IF code \notin DOMAIN m
    THEN [c \in DOMAIN m \cup {code} |-> IF c = code THEN 0 ELSE m[c]]
    ELSE [m EXCEPT ![code] = @ + 1]

\* The map after the body of incrementStatusCode(code).
Incremented(m, code) ==
    IF code \notin DOMAIN m
    THEN [c \in DOMAIN m \cup {code} |-> IF c = code THEN 1 ELSE m[c]]
    ELSE [m EXCEPT ![code] = @ + 1]

\* incrementStatusCode: the update, and the deferred Unlock().
IncrementStatusCode(t) ==
    /\ ~panicked
    /\ pc[t] = "incr"
    /\ statusCodeMap' = Incremented(statusCodeMap, resp[t].code)
    /\ statusCodeLock' = "free"
    /\ pc' = [pc EXCEPT ![t] = "sleep"]
    /\ UNCHANGED << StatusCodeRetryInterval, resp, cur, errs, reqs, sleeps, slept,
                    hist, maxRetryAfter, sendFrame >>

\* A plausible slip: the fixed pause of an earlier revision.
SleepDurationFixed == Second

\* The argument of time.Sleep: the interval as it is read now.
SleepDuration == StatusCodeRetryInterval

\* time.Sleep(StatusCodeRetryInterval)
Sleep(t) ==
    /\ ~panicked
    /\ pc[t] = "sleep"
    /\ sleeps' = [sleeps EXCEPT ![t] = @ + 1]
    /\ slept' = [slept EXCEPT ![t] = SleepDuration]
    /\ pc' = [pc EXCEPT ![t] = "eval"]
    /\ UNCHANGED << StatusCodeRetryInterval, statusCodeMap, statusCodeLock,
                    resp, cur, errs, reqs, hist, maxRetryAfter, sendFrame >>

\* A plausible slip: 400 itself let through as a success.
IsRejectedAbove(code) == code # StatusTooManyRequests /\ code > 400

\* The branches of the status evaluation (part_000:157, 171, 173).
IsRateLimited(code) == code = StatusTooManyRequests
IsRejected(code) == code # StatusTooManyRequests /\ code >= 400
IsSuccess(code) == ~IsRateLimited(code) /\ ~IsRejected(code)

\* A plausible slip: the new value computed from the increment alone.
GrownFromZero(r, interval, increment) ==
    IF r.header # <<>>
    THEN MinDuration(<< Atoi(r.header).val * Second, increment >>)
    ELSE MinDuration(<< NoHeaderCeiling, increment >>)

\* A plausible slip: the larger of the two taken, not the smaller.
GrownWithMax(r, interval, increment) ==
    IF r.header # <<>>
    THEN MaxDuration(<< Atoi(r.header).val * Second, interval + increment >>)
    ELSE MaxDuration(<< NoHeaderCeiling, interval + increment >>)

\* The interval assigned on a 429 whose header is absent or parses.
Grown(r, interval, increment) ==
    IF r.header # <<>>
    THEN MinDuration(<< Atoi(r.header).val * Second, interval + increment >>)
    ELSE MinDuration(<< NoHeaderCeiling, interval + increment >>)

\* A plausible slip: the decrement applied twice.
ShrunkTwice(interval, decrement) ==
    MaxDuration(<< 0, interval - decrement - decrement >>)

\* The interval assigned on a success.
Shrunk(interval, decrement) == MaxDuration(<< 0, interval - decrement >>)

\* The status is evaluated: a rejection and an unparseable Retry-After
\* return; otherwise StatusCodeRetryInterval is read for the update.
\* Send holds no lock here: the read and the assignment (Store) are two
\* steps, and a concurrent Send may assign in between. A read returns a
\* value that some assignment stored (a Duration is one machine word on a
\* 64-bit build).
Evaluate(t) ==
    /\ ~panicked
    /\ pc[t] = "eval"
    /\ LET r == resp[t]
           parsed == Atoi(r.header)
       IN  IF IsRateLimited(r.code) /\ r.header # <<>> /\ ~parsed.ok
           THEN /\ pc' = [pc EXCEPT ![t] = "done"]
                /\ errs' = [errs EXCEPT ![t] = << RetryAfterError >>]
                /\ UNCHANGED << cur, maxRetryAfter >>
           ELSE IF IsRejected(r.code)
           THEN /\ pc' = [pc EXCEPT ![t] = "done"]
                /\ errs' = [errs EXCEPT ![t] = << StatusError(r.code) >>]
                /\ UNCHANGED << cur, maxRetryAfter >>
           ELSE /\ pc' = [pc EXCEPT ![t] = "store"]
                /\ cur' = [cur EXCEPT ![t] = StatusCodeRetryInterval]
                /\ maxRetryAfter' =
                     IF IsRateLimited(r.code) /\ r.header # <<>>
                        /\ parsed.val > maxRetryAfter
                     THEN parsed.val ELSE maxRetryAfter
                /\ UNCHANGED errs
    /\ UNCHANGED << StatusCodeRetryInterval, statusCodeMap, statusCodeLock,
                    resp, reqs, sleeps, slept, hist, sendFrame >>

\* StatusCodeRetryInterval is assigned; a 429 loops, a success returns nil.
Store(t) ==
    /\ ~panicked
    /\ pc[t] = "store"
    /\ IF IsRateLimited(resp[t].code)
       THEN /\ StatusCodeRetryInterval' =
                 Grown(resp[t], cur[t], StatusCodeRetryIntervalIncrement)
            /\ pc' = [pc EXCEPT ![t] = "request"]
       ELSE /\ StatusCodeRetryInterval' =
                 Shrunk(cur[t], StatusCodeRetryIntervalDecrement)
            /\ pc' = [pc EXCEPT ![t] = "done"]
    /\ cur' = [cur EXCEPT ![t] = 0]
    /\ UNCHANGED << statusCodeMap, statusCodeLock, resp, errs, reqs, sleeps, slept,
                    hist, maxRetryAfter, sendFrame >>

\* Send has returned errs[t]; the thread goes on.
Return(t) ==
    /\ ~panicked
    /\ pc[t] = "done"
    /\ pc' = [pc EXCEPT ![t] = "idle"]
    /\ proxyArg' = [proxyArg EXCEPT ![t] = ""]
    /\ resp' = [resp EXCEPT ![t] = NoResponse]
    /\ errs' = [errs EXCEPT ![t] = <<>>]
    /\ reqs' = [reqs EXCEPT ![t] = 0]
    /\ sleeps' = [sleeps EXCEPT ![t] = 0]
    /\ slept' = [slept EXCEPT ![t] = 0]
    /\ hist' = [hist EXCEPT ![t] = <<>>]
    /\ start' = [start EXCEPT ![t] = 0]
    /\ UNCHANGED << globals, gpc, printed, panicked, cur, maxRetryAfter,
                    budget, tickersCreated, goroutinesCreated >>

(* ------------------------------- ticker -------------------------------- *)

\* What no step of a thread inside StartTicker or StopTicker changes.
tickerFrame ==
    << StatusCodeRetryInterval, StatusCodeRetryIntervalIncrement,
       StatusCodeRetryIntervalDecrement, statusCodeMap, transportProxy,
       debug, printed, proxyArg, resp, cur, errs, reqs, sleeps, slept, hist, start,
       maxRetryAfter, budget >>

\* StartTicker is called.
CallStartTicker(t) ==
    /\ ~panicked
    /\ pc[t] = "idle"
    /\ pc' = [pc EXCEPT ![t] = "start_lock"]
    /\ UNCHANGED << statusCodeLock, statusCodeTicker, tickerC, gpc, panicked,
                    tickersCreated, goroutinesCreated, tickerFrame >>

\* Init(): StartTicker when the flag is set, nothing otherwise.
PackageInit(t) ==
    /\ ~panicked
    /\ pc[t] = "idle"
    /\ pc' = [pc EXCEPT ![t] = IF debug THEN "start_lock" ELSE "idle"]
    /\ UNCHANGED << statusCodeLock, statusCodeTicker, tickerC, gpc, panicked,
                    tickersCreated, goroutinesCreated, tickerFrame >>

\* StartTicker: statusCodeLock.Lock()
StartTickerLock(t) ==
    /\ ~panicked
    /\ pc[t] = "start_lock"
    /\ statusCodeLock = "free"
    /\ statusCodeLock' = t
    /\ pc' = [pc EXCEPT ![t] = "start_body"]
    /\ UNCHANGED << statusCodeTicker, tickerC, gpc, panicked,
                    tickersCreated, goroutinesCreated, tickerFrame >>

\* A plausible slip: a stopped ticker taken for none.
TickerMissingOrStopped(ticker) == ticker # "running"

\* statusCodeTicker == nil
TickerIsNil(ticker) == ticker = "nil"

\* StartTicker: the ticker and its goroutine are created when there is no
\* ticker; the deferred Unlock().
StartTicker(t) ==
    /\ ~panicked
    /\ pc[t] = "start_body"
    /\ IF TickerIsNil(statusCodeTicker)
       THEN /\ statusCodeTicker' = "running"
            /\ tickerC' = FALSE
            /\ gpc' = "select"
            /\ tickersCreated' = tickersCreated + 1
            /\ goroutinesCreated' = goroutinesCreated + 1
       ELSE UNCHANGED << statusCodeTicker, tickerC, gpc, tickersCreated,
                         goroutinesCreated >>
    /\ statusCodeLock' = "free"
    /\ pc' = [pc EXCEPT ![t] = "idle"]
    /\ UNCHANGED << panicked, tickerFrame >>

\* StopTicker is called.
CallStopTicker(t) ==
    /\ ~panicked
    /\ pc[t] = "idle"
    /\ pc' = [pc EXCEPT ![t] = "stop_timer"]
    /\ UNCHANGED << statusCodeLock, statusCodeTicker, tickerC, gpc, panicked,
                    tickersCreated, goroutinesCreated, tickerFrame >>

\* Exit(): StopTicker when the flag is set, nothing otherwise.
PackageExit(t) ==
    /\ ~panicked
    /\ pc[t] = "idle"
    /\ pc' = [pc EXCEPT ![t] = IF debug THEN "stop_timer" ELSE "idle"]
    /\ UNCHANGED << statusCodeLock, statusCodeTicker, tickerC, gpc, panicked,
                    tickersCreated, goroutinesCreated, tickerFrame >>

\* A Stop() that does nothing when there is no ticker, and lets StopTicker
\* return.
StopTimerNilSafe(t) ==
    /\ ~panicked
    /\ pc[t] = "stop_timer"
    /\ IF TickerIsNil(statusCodeTicker)
       THEN /\ pc' = [pc EXCEPT ![t] = "idle"]
            /\ UNCHANGED statusCodeTicker
       ELSE /\ statusCodeTicker' = "stopped"
            /\ pc' = [pc EXCEPT ![t] = "stop_send"]
    /\ UNCHANGED << statusCodeLock, tickerC, gpc, panicked, tickersCreated,
                    goroutinesCreated, tickerFrame >>

\* StopTicker: statusCodeTicker.Stop(), a nil dereference when there is no
\* ticker.
StopTimer(t) ==
    /\ ~panicked
    /\ pc[t] = "stop_timer"
    /\ IF TickerIsNil(statusCodeTicker)
       THEN /\ panicked' = TRUE
            /\ UNCHANGED << statusCodeTicker, pc >>
       ELSE /\ statusCodeTicker' = "stopped"
            /\ pc' = [pc EXCEPT ![t] = "stop_send"]
            /\ UNCHANGED panicked
    /\ UNCHANGED << statusCodeLock, tickerC, gpc, tickersCreated,
                    goroutinesCreated, tickerFrame >>

\* A send that does not wait for the goroutine, as on a channel with a
\* buffer.
StopTickerSignalBuffered(t) ==
    /\ ~panicked
    /\ pc[t] = "stop_send"
    /\ pc' = [pc EXCEPT ![t] = "idle"]
    /\ UNCHANGED << statusCodeLock, statusCodeTicker, tickerC, gpc, panicked,
                    tickersCreated, goroutinesCreated, tickerFrame >>

\* StopTicker: statusCodeTickerDone <- true, taken by the goroutine's select
\* (the channel has no buffer); the goroutine returns.
StopTickerSignal(t) ==
    /\ ~panicked
    /\ pc[t] = "stop_send"
    /\ gpc = "select"
    /\ gpc' = "exited"
    /\ pc' = [pc EXCEPT ![t] = "idle"]
    /\ UNCHANGED << statusCodeLock, statusCodeTicker, tickerC, panicked,
                    tickersCreated, goroutinesCreated, tickerFrame >>

\* What no step of the ticker and its goroutine changes.
goroutineFrame ==
    << StatusCodeRetryInterval, StatusCodeRetryIntervalIncrement,
       StatusCodeRetryIntervalDecrement, transportProxy, debug, panicked,
       locals, reqs, sleeps, slept, hist, start, maxRetryAfter,
       budget, tickersCreated, goroutinesCreated >>

\* The running ticker sends a tick; it is dropped when one is waiting.
Tick ==
    /\ ~panicked
    /\ statusCodeTicker = "running"
    /\ ~tickerC
    /\ tickerC' = TRUE
    /\ UNCHANGED << statusCodeMap, statusCodeLock, statusCodeTicker, gpc,
                    printed, goroutineFrame >>

\* select: case t := <-statusCodeTicker.C
ReceiveTick ==
    /\ ~panicked
    /\ gpc = "select"
    /\ tickerC
    /\ tickerC' = FALSE
    /\ gpc' = "report_lock"
    /\ UNCHANGED << statusCodeMap, statusCodeLock, statusCodeTicker,
                    printed, goroutineFrame >>

\* reportStatusCodes: statusCodeLock.Lock()
ReportLock ==
    /\ ~panicked
    /\ gpc = "report_lock"
    /\ statusCodeLock = "free"
    /\ statusCodeLock' = "goroutine"
    /\ gpc' = "report"
    /\ UNCHANGED << statusCodeMap, statusCodeTicker, tickerC, printed,
                    goroutineFrame >>

\* A plausible slip: the reset called from inside reportStatusCodes, before
\* its deferred Unlock() has run.
ReportStatusCodesNested ==
    /\ ~panicked
    /\ gpc = "report"
    /\ printed' = statusCodeMap
    /\ gpc' = "reset_lock"
    /\ UNCHANGED << statusCodeMap, statusCodeLock, statusCodeTicker, tickerC,
                    goroutineFrame >>

\* reportStatusCodes: the log line, and the deferred Unlock().
ReportStatusCodes ==
    /\ ~panicked
    /\ gpc = "report"
    /\ printed' = statusCodeMap
    /\ statusCodeLock' = "free"
    /\ gpc' = "reset_lock"
    /\ UNCHANGED << statusCodeMap, statusCodeTicker, tickerC,
                    goroutineFrame >>

\* resetStatusCodes: statusCodeLock.Lock()
ResetLock ==
    /\ ~panicked
    /\ gpc = "reset_lock"
    /\ statusCodeLock = "free"
    /\ statusCodeLock' = "goroutine"
    /\ gpc' = "reset"
    /\ UNCHANGED << statusCodeMap, statusCodeTicker, tickerC, printed,
                    goroutineFrame >>

\* A plausible slip: the map emptied instead of zeroed.
Cleared(m) == [c \in {} |-> 0]

\* The map after the loop of resetStatusCodes.
Zeroed(m) == [c \in DOMAIN m |-> 0]

\* resetStatusCodes: every count set to 0, and the deferred Unlock().
ResetStatusCodes ==
    /\ ~panicked
    /\ gpc = "reset"
    /\ statusCodeMap' = Zeroed(statusCodeMap)
    /\ printed' = EmptyMap
    /\ statusCodeLock' = "free"
    /\ gpc' = "select"
    /\ UNCHANGED << statusCodeTicker, tickerC, goroutineFrame >>

(* ---------------------------- specification ---------------------------- *)

\* One step of a Send call: of a caller's thread among T, whose Send calls
\* are given proxies of P and answered with responses of R.
SendStep(T, R, P) ==
    \/ \E t \in T, proxy \in P : CallSend(t, proxy)
    \/ \E t \in T : NewRequestFails(t)
    \/ \E t \in T : DoFails(t)
    \/ \E t \in T, r \in R : DoRequest(t, r)
    \/ \E t \in T : IncrementLock(t)
    \/ \E t \in T : IncrementStatusCode(t)
    \/ \E t \in T : Sleep(t)
    \/ \E t \in T : Evaluate(t)
    \/ \E t \in T : Store(t)
    \/ \E t \in T : Return(t)

\* One step of the ticker lifecycle: of a thread among T inside StartTicker
\* or StopTicker, of the ticker, or of its goroutine.
TickerStep(T) ==
    \/ \E t \in T : CallStartTicker(t)
    \/ \E t \in T : PackageInit(t)
    \/ \E t \in T : StartTickerLock(t)
    \/ \E t \in T : StartTicker(t)
    \/ \E t \in T : CallStopTicker(t)
    \/ \E t \in T : PackageExit(t)
    \/ \E t \in T : StopTimer(t)
    \/ \E t \in T : StopTickerSignal(t)
    \/ Tick
    \/ ReceiveTick
    \/ ReportLock
    \/ ReportStatusCodes
    \/ ResetLock
    \/ ResetStatusCodes

\* The whole program: concurrent callers, each calling Send, StartTicker and
\* StopTicker, beside the ticker and its goroutine.
Init == InitFrom(ConcIntervals, InitIncrements, ConcDecrements, MaxRequests)
Next == SendStep(Threads, ConcResponses, ConcProxies) \/ TickerStep(Threads)
Spec == Init /\ [][Next]_vars

\* The delivery engine by itself: one caller making Send calls one after
\* the other, with all the inputs.
InitSeq ==
    InitFrom(InitIntervals, InitIncrements, InitDecrements, MaxSeqRequests)
NextSeq == SendStep(SeqThreads, Responses, Proxies)
SpecSeq == InitSeq /\ [][NextSeq]_vars

\* Scheduling. A thread that is inside a call and a goroutine that can run
\* are run by the Go scheduler; a sync.Mutex hands the lock to a waiter that
\* keeps asking (its starvation mode), hence strong fairness for Lock().
\* Nothing obliges a caller to make a call, the server to answer or the
\* ticker to tick; the steps of Send that touch neither the lock nor the
\* ticker are left without a fairness condition, which none of the
\* properties needs.
Fairness ==
    /\ \A t \in Threads :
          /\ SF_vars(IncrementLock(t))
          /\ WF_vars(IncrementStatusCode(t))
          /\ SF_vars(StartTickerLock(t))
          /\ WF_vars(StartTicker(t))
          /\ WF_vars(StopTimer(t))
          /\ WF_vars(StopTickerSignal(t))
    /\ WF_vars(ReceiveTick)
    /\ SF_vars(ReportLock)
    /\ WF_vars(ReportStatusCodes)
    /\ SF_vars(ResetLock)
    /\ WF_vars(ResetStatusCodes)

\* The whole program under that scheduling.
InitFair ==
    InitFrom(ConcIntervals, InitIncrements, ConcDecrements, MaxFairRequests)
NextFair == SendStep(Threads, FairResponses, FairProxies) \/ TickerStep(Threads)
SpecFair == InitFair /\ [][NextFair]_vars /\ Fairness

(* ------------------ the gorequest revision (main.go) ------------------- *)

\* What the revision of src/main.go does not have or does not touch: the
\* interval and its steps, the shared client, the flag and the fatal error.
mainUnused ==
    << StatusCodeRetryInterval, StatusCodeRetryIntervalIncrement,
       StatusCodeRetryIntervalDecrement, transportProxy, debug, panicked,
       cur, start, maxRetryAfter >>

\* What no step of its Send changes but a request.
mainSendFrame ==
    << statusCodeTicker, tickerC, gpc, printed, proxyArg, tickersCreated,
       goroutinesCreated, mainUnused >>

\* What no step of InitialiseTicker and of the goroutine changes.
mainTickerFrame ==
    << proxyArg, resp, errs, reqs, sleeps, slept, hist, budget, mainUnused >>

\* Send is called; gorequest.New().Proxy(proxy) builds the call's own client.
MainCallSend(t, proxy) ==
    /\ ~panicked
    /\ pc[t] = "idle"
    /\ pc' = [pc EXCEPT ![t] = "main_request"]
    /\ proxyArg' = [proxyArg EXCEPT ![t] = proxy]
    /\ resp' = [resp EXCEPT ![t] = NoResponse]
    /\ errs' = [errs EXCEPT ![t] = <<>>]
    /\ reqs' = [reqs EXCEPT ![t] = 0]
    /\ sleeps' = [sleeps EXCEPT ![t] = 0]
    /\ slept' = [slept EXCEPT ![t] = 0]
    /\ hist' = [hist EXCEPT ![t] = <<>>]
    /\ UNCHANGED << statusCodeMap, statusCodeLock, statusCodeTicker, tickerC,
                    gpc, printed, budget, tickersCreated, goroutinesCreated,
                    mainUnused >>

\* End() returns errors: a proxy that does not parse, a transport failure.
MainEndFails(t) ==
    /\ ~panicked
    /\ pc[t] = "main_request"
    /\ budget > 0
    /\ budget' = budget - 1
    /\ reqs' = [reqs EXCEPT ![t] = @ + 1]
    /\ pc' = [pc EXCEPT ![t] = "done"]
    /\ errs' = [errs EXCEPT ![t] = << TransportError >>]
    /\ UNCHANGED << statusCodeMap, statusCodeLock, resp, sleeps, slept, hist,
                    mainSendFrame >>

\* End() returns the response r.
MainEnd(t, r) ==
    /\ ~panicked
    /\ pc[t] = "main_request"
    /\ ProxyParses(proxyArg[t])
    /\ budget > 0
    /\ budget' = budget - 1
    /\ reqs' = [reqs EXCEPT ![t] = @ + 1]
    /\ resp' = [resp EXCEPT ![t] = r]
    /\ hist' = [hist EXCEPT ![t] = Append(@, r)]
    /\ pc' = [pc EXCEPT ![t] =
                 IF TelemetryEnabled THEN "main_incr_lock" ELSE "main_eval"]
    /\ UNCHANGED << statusCodeMap, statusCodeLock, errs, sleeps, slept,
                    mainSendFrame >>

\* incrementStatusCode: statusCodeLock.Lock()
MainIncrementLock(t) ==
    /\ ~panicked
    /\ pc[t] = "main_incr_lock"
    /\ statusCodeLock = "free"
    /\ statusCodeLock' = t
    /\ pc' = [pc EXCEPT ![t] = "main_incr"]
    /\ UNCHANGED << statusCodeMap, resp, errs, reqs, sleeps, slept, hist,
                    budget, mainSendFrame >>

\* incrementStatusCode: the update, and the deferred Unlock().
MainIncrementStatusCode(t) ==
    /\ ~panicked
    /\ pc[t] = "main_incr"
    /\ statusCodeMap' = Incremented(statusCodeMap, resp[t].code)
    /\ statusCodeLock' = "free"
    /\ pc' = [pc EXCEPT ![t] = "main_eval"]
    /\ UNCHANGED << resp, errs, reqs, sleeps, slept, hist, budget,
                    mainSendFrame >>

\* The pause before a retry: the seconds of Retry-After, or one second.
MainPause(r) ==
    IF r.header # <<>> THEN Atoi(r.header).val * Second ELSE 1 * Second

\* The status is evaluated: a 429 sleeps and loops, unless its Retry-After
\* does not parse; a rejection returns its error; a success returns nil.
MainEvaluate(t) ==
    /\ ~panicked
    /\ pc[t] = "main_eval"
    /\ LET r == resp[t]
       IN  IF IsRateLimited(r.code) /\ r.header # <<>> /\ ~Atoi(r.header).ok
           THEN /\ pc' = [pc EXCEPT ![t] = "done"]
                /\ errs' = [errs EXCEPT ![t] = << RetryAfterError >>]
                /\ UNCHANGED << sleeps, slept >>
           ELSE IF IsRateLimited(r.code)
           THEN /\ pc' = [pc EXCEPT ![t] = "main_request"]
                /\ sleeps' = [sleeps EXCEPT ![t] = @ + 1]
                /\ slept' = [slept EXCEPT ![t] = MainPause(r)]
                /\ UNCHANGED errs
           ELSE /\ pc' = [pc EXCEPT ![t] = "done"]
                /\ errs' = [errs EXCEPT ![t] =
                               IF IsRejected(r.code)
                               THEN << StatusError(r.code) >> ELSE <<>>]
                /\ UNCHANGED << sleeps, slept >>
    /\ UNCHANGED << statusCodeMap, statusCodeLock, resp, reqs, hist, budget,
                    mainSendFrame >>

\* InitialiseTicker is called.
MainCallInitialiseTicker(t) ==
    /\ ~panicked
    /\ pc[t] = "idle"
    /\ pc' = [pc EXCEPT ![t] = "main_start_lock"]
    /\ UNCHANGED << statusCodeMap, statusCodeLock, statusCodeTicker, tickerC,
                    gpc, printed, tickersCreated, goroutinesCreated,
                    mainTickerFrame >>

\* Init(): InitialiseTicker when the flag is set, nothing otherwise.
MainPackageInit(t) ==
    /\ ~panicked
    /\ pc[t] = "idle"
    /\ pc' = [pc EXCEPT ![t] =
                 IF TelemetryEnabled THEN "main_start_lock" ELSE "idle"]
    /\ UNCHANGED << statusCodeMap, statusCodeLock, statusCodeTicker, tickerC,
                    gpc, printed, tickersCreated, goroutinesCreated,
                    mainTickerFrame >>

\* InitialiseTicker: statusCodeLock.Lock()
MainInitialiseTickerLock(t) ==
    /\ ~panicked
    /\ pc[t] = "main_start_lock"
    /\ statusCodeLock = "free"
    /\ statusCodeLock' = t
    /\ pc' = [pc EXCEPT ![t] = "main_start_body"]
    /\ UNCHANGED << statusCodeMap, statusCodeTicker, tickerC, gpc, printed,
                    tickersCreated, goroutinesCreated, mainTickerFrame >>

\* InitialiseTicker: the ticker and its goroutine when there is none, and
\* the deferred Unlock().
MainInitialiseTicker(t) ==
    /\ ~panicked
    /\ pc[t] = "main_start_body"
    /\ IF TickerIsNil(statusCodeTicker)
       THEN /\ statusCodeTicker' = "running"
            /\ gpc' = "main_range"
            /\ tickersCreated' = tickersCreated + 1
            /\ goroutinesCreated' = goroutinesCreated + 1
       ELSE UNCHANGED << statusCodeTicker, gpc, tickersCreated,
                         goroutinesCreated >>
    /\ statusCodeLock' = "free"
    /\ pc' = [pc EXCEPT ![t] = "idle"]
    /\ UNCHANGED << statusCodeMap, tickerC, printed, mainTickerFrame >>

\* for t := range statusCodeTicker.C
MainReceiveTick ==
    /\ ~panicked
    /\ gpc = "main_range"
    /\ tickerC
    /\ tickerC' = FALSE
    /\ gpc' = "main_report_lock"
    /\ UNCHANGED << statusCodeMap, statusCodeLock, statusCodeTicker, printed,
                    pc, tickersCreated, goroutinesCreated, mainTickerFrame >>

\* statusCodeLock.Lock() of the goroutine, at the head of reportStatusCodes
\* and at the head of resetStatusCodes: it returns when the lock is free
\* (a sync.Mutex does not know its holder).
MainLock ==
    /\ ~panicked
    /\ gpc \in {"main_report_lock", "main_reset_lock"}
    /\ statusCodeLock = "free"
    /\ statusCodeLock' = "goroutine"
    /\ gpc' = IF gpc = "main_report_lock" THEN "main_report" ELSE "main_reset"
    /\ UNCHANGED << statusCodeMap, statusCodeTicker, tickerC, printed, pc,
                    tickersCreated, goroutinesCreated, mainTickerFrame >>

\* The goroutine inside the lock. In reportStatusCodes: the line is printed
\* and resetStatusCodes is called, the deferred Unlock() of
\* reportStatusCodes still to come. In resetStatusCodes: the counts are set
\* to zero and its deferred Unlock() runs; reportStatusCodes then returns,
\* and its own deferred Unlock() finds the mutex unlocked, a fatal error.
MainCriticalSection ==
    /\ ~panicked
    /\ gpc \in {"main_report", "main_reset"}
    /\ IF gpc = "main_report"
       THEN /\ printed' = statusCodeMap
            /\ gpc' = "main_reset_lock"
            /\ UNCHANGED << statusCodeMap, statusCodeLock, panicked >>
       ELSE /\ statusCodeMap' = Zeroed(statusCodeMap)
            /\ printed' = EmptyMap
            /\ statusCodeLock' = "free"
            /\ gpc' = "main_range"
            /\ panicked' = TRUE
    /\ UNCHANGED << StatusCodeRetryInterval, StatusCodeRetryIntervalIncrement,
                    StatusCodeRetryIntervalDecrement, transportProxy, debug,
                    cur, start, maxRetryAfter, statusCodeTicker, tickerC, pc,
                    proxyArg, resp, errs, reqs, sleeps, slept, hist, budget,
                    tickersCreated, goroutinesCreated >>

\* The revision of src/main.go: concurrent callers of its Send, Init and
\* InitialiseTicker, beside the ticker and its goroutine.
NextMain ==
    \/ \E t \in Threads, proxy \in ConcProxies : MainCallSend(t, proxy)
    \/ \E t \in Threads : MainEndFails(t)
    \/ \E t \in Threads, r \in ConcResponses : MainEnd(t, r)
    \/ \E t \in Threads : MainIncrementLock(t)
    \/ \E t \in Threads : MainIncrementStatusCode(t)
    \/ \E t \in Threads : MainEvaluate(t)
    \/ \E t \in Threads : Return(t)
    \/ \E t \in Threads : MainCallInitialiseTicker(t)
    \/ \E t \in Threads : MainPackageInit(t)
    \/ \E t \in Threads : MainInitialiseTickerLock(t)
    \/ \E t \in Threads : MainInitialiseTicker(t)
    \/ Tick
    \/ MainReceiveTick
    \/ MainLock
    \/ MainCriticalSection
SpecMain == Init /\ [][NextMain]_vars

(* ----------------------------- properties ------------------------------ *)

\* The arithmetic of the contract, written out.
Smaller(a, b) == IF a <= b THEN a ELSE b
Larger(a, b) == IF a >= b THEN a ELSE b

\* The headers of the model that are integers, and the seconds they state.
IntegerHeaders == { <<"2">>, <<"-", "1">>, <<"5">> }
HeaderSeconds(h) ==
    CASE h = <<"2">> -> 2
      [] h = <<"-", "1">> -> 0 - 1
      [] h = <<"5">> -> 5

\* A 429 that the loop retries, one whose header is malformed, and the
\* other statuses, as the contract words them.
Retryable(r) ==
    r.code = 429 /\ (r.header = <<>> \/ r.header \in IntegerHeaders)
Malformed(r) ==
    r.code = 429 /\ r.header # <<>> /\ r.header \notin IntegerHeaders
Rejected(r) == r.code >= 400 /\ r.code # 429
Delivered(r) == r.code < 400

\* The interval the contract prescribes after one response.
AfterResponse(interval, r, increment, decrement) ==
    IF Retryable(r)
    THEN IF r.header = <<>>
         THEN Smaller(4 * Second, interval + increment)
         ELSE Smaller(HeaderSeconds(r.header) * Second, interval + increment)
    ELSE IF Delivered(r)
    THEN Larger(0, interval - decrement)
    ELSE interval

\* The interval the contract prescribes after the responses h, in order.
RECURSIVE AfterResponses(_, _, _, _)
AfterResponses(interval, h, increment, decrement) ==
    IF h = <<>> THEN interval
    ELSE AfterResponses(AfterResponse(interval, Head(h), increment, decrement),
                        Tail(h), increment, decrement)

\* What the contract prescribes for the Send call of t, from the interval
\* at its call and the responses it has received.
Prescribed(t) ==
    AfterResponses(start[t], hist[t], StatusCodeRetryIntervalIncrement,
                   StatusCodeRetryIntervalDecrement)

\* The Send call of t has returned.
Returned(t) == pc[t] = "done"

\* The responses of t before its last are all retryable 429s.
RetriedUntilLast(t) ==
    \A i \in 1 .. Len(hist[t]) - 1 : Retryable(hist[t][i])

\* C1: a Send answered K times with 429 (Retry-After absent or an integer)
\* and then with 200, alone, has issued exactly K+1 requests when it
\* returns, returns no errors, and leaves the interval at the value got by
\* applying the growth rule once per 429, in order, and then the decrement
\* once; no request follows the 200.
C1_RetriesThenSuccess ==
    \A t \in SeqThreads :
        LET n == Len(hist[t]) IN
        /\ (n > 0 /\ RetriedUntilLast(t) /\ hist[t][n].code = 200)
              => reqs[t] = n
        /\ (Returned(t) /\ n > 0 /\ RetriedUntilLast(t)
              /\ hist[t][n].code = 200)
              => /\ errs[t] = <<>>
                 /\ StatusCodeRetryInterval = Prescribed(t)

\* Reached: a Send has returned after two 429s, one without a Retry-After
\* header and one with an integer one, and a 200.
C1_Witness ==
    \E t \in SeqThreads :
        /\ Returned(t)
        /\ Len(hist[t]) = 3
        /\ hist[t][3].code = 200
        /\ \E i, j \in 1 .. 2 :
              /\ hist[t][i].code = 429 /\ hist[t][i].header = <<>>
              /\ hist[t][j].code = 429 /\ hist[t][j].header \in IntegerHeaders

\* The tally m with one more count at code, from zero when code is new.
OneMoreAt(m, code) ==
    [c \in DOMAIN m \cup {code} |->
        IF c = code THEN (IF c \in DOMAIN m THEN m[c] ELSE 0) + 1 ELSE m[c]]

Ok200 == [code |-> 200, header |-> <<>>]

\* The step of t that records a first response of 200 in the tally.
RecordsFirst200(t) ==
    /\ pc[t] = "incr" /\ pc'[t] # "incr"
    /\ hist[t] = << Ok200 >>

\* The step of t with which a Send answered 200 at once returns, the
\* telemetry flag set.
ReturnsAfterFirst200(t) ==
    /\ pc[t] # "done" /\ pc'[t] = "done"
    /\ hist[t] = << Ok200 >>
    /\ debug

\* C2 as stated: a Send answered 200 on its first request, telemetry
\* enabled and alone, issues one request, returns no errors, leaves the
\* interval at max(0, old - decrement), strictly below the old value, and
\* its recording adds exactly one count at key 200, other keys unchanged.
C2_FirstSuccessStrictlySmaller ==
    [][\A t \in SeqThreads :
          /\ RecordsFirst200(t) => statusCodeMap' = OneMoreAt(statusCodeMap, 200)
          /\ ReturnsAfterFirst200(t)
                => /\ reqs'[t] = 1
                   /\ errs'[t] = <<>>
                   /\ 200 \in DOMAIN statusCodeMap'
                   /\ StatusCodeRetryInterval' =
                         Larger(0, start[t] - StatusCodeRetryIntervalDecrement)
                   /\ StatusCodeRetryInterval' < start[t]]_vars

\* C2, amended: the same, the interval strictly below the old value when
\* the old value is above zero, and left at zero when it is zero.
C2_FirstSuccess ==
    [][\A t \in SeqThreads :
          /\ RecordsFirst200(t) => statusCodeMap' = OneMoreAt(statusCodeMap, 200)
          /\ ReturnsAfterFirst200(t)
                => /\ reqs'[t] = 1
                   /\ errs'[t] = <<>>
                   /\ 200 \in DOMAIN statusCodeMap'
                   /\ StatusCodeRetryInterval' =
                         Larger(0, start[t] - StatusCodeRetryIntervalDecrement)
                   /\ start[t] > 0 => StatusCodeRetryInterval' < start[t]
                   /\ start[t] = 0 => StatusCodeRetryInterval' = 0]_vars

\* Reached: with telemetry enabled, a Send answered 200 at once has
\* returned, the interval below its old value and 200 counted in the tally.
C2_Witness ==
    \E t \in SeqThreads :
        /\ Returned(t)
        /\ debug
        /\ hist[t] = << Ok200 >>
        /\ errs[t] = <<>>
        /\ 200 \in DOMAIN statusCodeMap
        /\ StatusCodeRetryInterval < start[t]

\* C3 as stated: the interval is never negative and never above
\* max(4 seconds, the largest Retry-After seconds received).
C3_IntervalWithinBounds ==
    /\ StatusCodeRetryInterval >= 0
    /\ StatusCodeRetryInterval <= Larger(4 * Second, maxRetryAfter * Second)

\* The responses of t with a status below 400.
DeliveredAt(t) == { i \in 1 .. Len(hist[t]) : Delivered(hist[t][i]) }

\* C4: Send returns an empty error list only when its last request was
\* answered with a status below 400, and then exactly one of its requests
\* was; every other return carries exactly one error.
C4_EmptyOnlyAfterOneDelivery ==
    \A t \in SeqThreads :
        Returned(t) =>
            LET n == Len(hist[t]) IN
            IF errs[t] = <<>>
            THEN /\ n > 0
                 /\ reqs[t] = n
                 /\ Delivered(hist[t][n])
                 /\ Cardinality(DeliveredAt(t)) = 1
            ELSE Len(errs[t]) = 1

\* Reached: a Send has returned no errors after a retry.
C4_Witness ==
    \E t \in SeqThreads :
        /\ Returned(t)
        /\ errs[t] = <<>>
        /\ Len(hist[t]) >= 2

\* C5: after a status >= 400 other than 429 Send issues no further request
\* and does not go on to adjust the interval; it returns exactly one error,
\* which carries that status, with the interval as the responses before
\* left it; answered so at once, it has issued one request and the
\* interval is the one at the call.
C5_RejectionIsTerminal ==
    \A t \in SeqThreads :
        LET n == Len(hist[t]) IN
        (n > 0 /\ Rejected(hist[t][n])) =>
            /\ reqs[t] = n
            /\ pc[t] \notin {"request", "store"}
            /\ Returned(t) =>
                  /\ errs[t] = << [kind |-> "status", code |-> hist[t][n].code] >>
                  /\ StatusCodeRetryInterval = Prescribed(t)
                  /\ n = 1 => StatusCodeRetryInterval = start[t]

\* Reached: a Send has returned after a 429 and then a 500.
C5_Witness ==
    \E t \in SeqThreads :
        /\ Returned(t)
        /\ Len(hist[t]) = 2
        /\ hist[t][1].code = 429
        /\ hist[t][2].code = 500
        /\ Len(errs[t]) = 1

\* C6: after a 429 whose Retry-After header is present and is no integer
\* Send issues no further request and does not go on to adjust the
\* interval; it returns exactly one error, with the interval as the
\* responses before left it.
C6_MalformedRetryAfterIsTerminal ==
    \A t \in SeqThreads :
        LET n == Len(hist[t]) IN
        (n > 0 /\ Malformed(hist[t][n])) =>
            /\ reqs[t] = n
            /\ pc[t] \notin {"request", "store"}
            /\ Returned(t) =>
                  /\ Len(errs[t]) = 1
                  /\ errs[t][1].kind = "retryafter"
                  /\ StatusCodeRetryInterval = Prescribed(t)

\* Reached: a Send has returned after a 429 and then a 429 with a
\* malformed Retry-After header.
C6_Witness ==
    \E t \in SeqThreads :
        /\ Returned(t)
        /\ Len(hist[t]) = 2
        /\ Retryable(hist[t][1])
        /\ Malformed(hist[t][2])
        /\ Len(errs[t]) = 1

\* C7: the step in which a request of Send fails without a response makes
\* Send return one error, the failure, and changes neither the status
\* tally, nor the number of sleeps, nor the interval.
C7_TransportFailureIsTerminal ==
    [][\A t \in SeqThreads :
          (reqs'[t] = reqs[t] + 1 /\ hist'[t] = hist[t])
             => /\ pc'[t] = "done"
                /\ Len(errs'[t]) = 1
                /\ errs'[t][1].kind = "transport"
                /\ statusCodeMap' = statusCodeMap
                /\ sleeps'[t] = sleeps[t]
                /\ sleeps'[t] = Len(hist[t])
                /\ StatusCodeRetryInterval' = StatusCodeRetryInterval]_vars

\* Reached: a Send has returned the failure of its second request, the
\* telemetry flag set.
C7_Witness ==
    \E t \in SeqThreads :
        /\ Returned(t)
        /\ debug
        /\ Len(hist[t]) = 1
        /\ reqs[t] = 2
        /\ Len(errs[t]) = 1
        /\ errs[t][1].kind = "transport"

\* The step with which t leaves StartTicker, having found a ticker.
StartTickerFindsTicker(t) ==
    /\ pc[t] = "start_body" /\ pc'[t] # "start_body"
    /\ statusCodeTicker # "nil"

\* C8: over any interleaving of StartTicker calls, those after StopTicker
\* included, at most one ticker and at most one reporting goroutine are
\* ever created, and a StartTicker call that finds the ticker handle set
\* changes nothing but its own position and the lock it releases.
C8_AtMostOneTicker ==
    [][/\ tickersCreated' <= 1
       /\ goroutinesCreated' <= 1
       /\ \A t \in Threads :
             StartTickerFindsTicker(t)
                => UNCHANGED << StatusCodeRetryInterval,
                                StatusCodeRetryIntervalIncrement,
                                StatusCodeRetryIntervalDecrement,
                                statusCodeMap, statusCodeTicker, tickerC,
                                transportProxy, debug, gpc, printed,
                                panicked, tickersCreated,
                                goroutinesCreated >>]_vars

\* Reached: StopTicker has returned, the goroutine has exited, and a later
\* StartTicker call holds the lock while another waits for it.
C8_Witness ==
    \E t, u \in Threads :
        /\ pc[t] = "start_body"
        /\ pc[u] = "start_lock"
        /\ statusCodeTicker = "stopped"
        /\ gpc = "exited"
        /\ tickersCreated = 1

\* C9 as stated: the counts that resetStatusCodes zeroes are the counts
\* that the report of the same tick has printed.
C9_ResetZeroesWhatWasReported ==
    gpc = "reset" => statusCodeMap = printed

\* C10 as stated: two Send calls that run concurrently from the same
\* interval, each answered 200 at once, leave the interval decremented
\* twice.
C10_NoLostUpdate ==
    \A t, u \in Threads :
        (/\ t # u
         /\ Returned(t) /\ hist[t] = << Ok200 >>
         /\ Returned(u) /\ hist[u] = << Ok200 >>
         /\ start[t] = start[u])
        => StatusCodeRetryInterval =
              Larger(0, Larger(0, start[t] - StatusCodeRetryIntervalDecrement)
                           - StatusCodeRetryIntervalDecrement)

\* The step in which the StopTicker call of t returns.
StopTickerReturns(t) == pc[t] = "stop_send" /\ pc'[t] = "idle"

\* The step in which the StopTicker call of t has stopped the timer.
TimerStopped(t) == pc[t] = "stop_timer" /\ pc'[t] = "stop_send"

\* A step that prints the tally or sets counts of the tally to zero.
ReportOrReset ==
    \/ printed' # printed
    \/ \E c \in DOMAIN statusCodeMap :
          c \notin DOMAIN statusCodeMap' \/ statusCodeMap'[c] < statusCodeMap[c]

\* C11: StopTicker called on a running ticker halts the timer (no tick is
\* sent after Stop()), returns only in the step in which the goroutine takes
\* the stop signal, after which the goroutine is gone for good and nothing
\* reports or resets the tally; and under fair scheduling the goroutine of a
\* running ticker on which StopTicker is called does exit.
C11_StopTickerEndsGoroutine ==
    /\ [][/\ \A t \in Threads :
                /\ TimerStopped(t) => statusCodeTicker' = "stopped"
                /\ StopTickerReturns(t) => gpc = "select" /\ gpc' = "exited"
          /\ statusCodeTicker = "stopped"
                => statusCodeTicker' = "stopped" /\ (tickerC' => tickerC)
          /\ gpc = "exited" => gpc' = "exited" /\ ~ReportOrReset]_vars
    /\ (\E t \in Threads :
            pc[t] = "stop_timer" /\ statusCodeTicker = "running")
          ~> (gpc = "exited")

\* Reached: a StopTicker call on a running ticker has returned, the
\* goroutine has exited and the tally holds a count no report will print.
C11_Witness ==
    /\ gpc = "exited"
    /\ statusCodeTicker = "stopped"
    /\ \A t \in Threads : pc[t] = "idle"
    /\ \E c \in DOMAIN statusCodeMap : statusCodeMap[c] > 0

\* A step of the StopTicker call of t at statusCodeTicker.Stop().
StopStep(t) ==
    /\ pc[t] = "stop_timer"
    /\ pc'[t] # pc[t] \/ panicked' # panicked

\* C12: a StopTicker call (direct or through Exit) that reaches Stop() while
\* there is no ticker ends the process in a fatal error: it does not
\* return, creates no goroutine and no ticker, and leaves the tally and the
\* interval alone; after the fatal error nothing runs.
C12_StopTickerWhenIdleIsFatal ==
    [][/\ \A t \in Threads :
             (StopStep(t) /\ statusCodeTicker = "nil")
             => /\ panicked'
                /\ pc'[t] = "stop_timer"
                /\ UNCHANGED << goroutinesCreated, tickersCreated, gpc,
                                statusCodeTicker, statusCodeMap,
                                StatusCodeRetryInterval >>
       /\ ~panicked]_vars

\* Reached: Exit with the flag set, or StopTicker, has hit the nil ticker
\* while the other thread's Send had recorded a response.
C12_Witness ==
    /\ panicked
    /\ statusCodeTicker = "nil"
    /\ goroutinesCreated = 0
    /\ \E t \in Threads : pc[t] = "stop_timer"
    /\ \E c \in DOMAIN statusCodeMap : statusCodeMap[c] > 0

\* The step in which resetStatusCodes has run (the drain of one tick).
Drained == gpc = "reset" /\ gpc' # "reset"

\* C13: the drain of a tick leaves the tally with the keys it had and every
\* count zero, and no step of any Send, StartTicker, StopTicker or tick
\* removes a key from the tally.
C13_DrainKeepsKeys ==
    [][/\ DOMAIN statusCodeMap \subseteq DOMAIN statusCodeMap'
       /\ Drained
          => /\ DOMAIN statusCodeMap' = DOMAIN statusCodeMap
             /\ \A c \in DOMAIN statusCodeMap' : statusCodeMap'[c] = 0]_vars

\* Reached: a drain has zeroed the count of a code and kept its key, and
\* another code has been counted since.
C13_Witness ==
    /\ Cardinality(DOMAIN statusCodeMap) = 2
    /\ \E c, d \in DOMAIN statusCodeMap :
          statusCodeMap[c] = 0 /\ statusCodeMap[d] = 1

\* The step in which a request of the Send call of t has gone out through
\* HttpClient and has been answered.
RequestAnswered(t) == Len(hist'[t]) = Len(hist[t]) + 1

\* C14 as stated: every request of a Send call that was given the empty
\* proxy goes out through a client that has no proxy, whatever Send calls
\* ran before.
C14_EmptyProxyMeansNoProxy ==
    [][\A t \in SeqThreads :
          (RequestAnswered(t) /\ proxyArg[t] = "") => transportProxy = ""]_vars

\* The step in which the Send call of t goes on to its sleep: straight from
\* the response, or from the recording of the response.
GoesToSleep(t) == pc[t] # "sleep" /\ pc'[t] = "sleep"

\* C15: with the flag set, every response a Send receives is first recorded,
\* and its recording adds exactly one count at the response's status code,
\* from zero when the code is new, and changes no other key; nothing but
\* such a recording and the drain of a tick changes the tally; with the flag
\* unset the tally never changes.
C15_RecordingIsGated ==
    [][/\ \A t \in Threads :
             /\ RequestAnswered(t)
                => /\ resp'[t] = hist'[t][Len(hist'[t])]
                   /\ debug => pc'[t] = "incr_lock"
                   /\ (~debug) => GoesToSleep(t)
                   /\ statusCodeMap' = statusCodeMap
             /\ (debug /\ GoesToSleep(t))
                => /\ ~RequestAnswered(t)
                   /\ resp[t] = hist[t][Len(hist[t])]
                   /\ statusCodeMap' = OneMoreAt(statusCodeMap, resp[t].code)
       /\ statusCodeMap' # statusCodeMap
          => /\ debug
             /\ Drained \/ \E t \in Threads : GoesToSleep(t)]_vars

\* Reached: with the flag set, two responses of 200 have been recorded, the
\* first creating the key and the second adding to it.
C15_Witness ==
    /\ debug
    /\ 200 \in DOMAIN statusCodeMap
    /\ statusCodeMap[200] = 2

\* The step in which the Send call of t assigns the interval.
Adjusts(t) == pc[t] = "store" /\ pc'[t] # "store"

\* The ceiling that a retryable 429 puts on the interval.
Ceiling(r) ==
    IF r.header = <<>> THEN 4 * Second ELSE HeaderSeconds(r.header) * Second

\* C16 as stated: no step lowers the interval but the adjustment after a
\* success; the adjustment after a 429 whose Retry-After is absent or an
\* integer leaves the interval at least as large as it was.
C16_RateLimitOnlyIncreases ==
    [][StatusCodeRetryInterval' < StatusCodeRetryInterval
          => \E t \in SeqThreads : Adjusts(t) /\ Delivered(resp[t])]_vars

\* C16, amended: the adjustment after a 429 whose Retry-After is absent or
\* an integer sets the interval to the smaller of the ceiling (4 seconds, or
\* the seconds of Retry-After) and the interval plus the increment: at least
\* the old interval when the ceiling is, the ceiling itself when the ceiling
\* is below the old interval. The interval is lowered only by that and by
\* the adjustment after a success, which sets it to the larger of 0 and the
\* interval less the decrement (no more than a non-negative old interval);
\* nothing else changes it.
C16_RateLimitGrowsUpToCeiling ==
    [][/\ \A t \in SeqThreads :
             Adjusts(t)
             => /\ Retryable(resp[t]) \/ Delivered(resp[t])
                /\ Retryable(resp[t])
                   => /\ StatusCodeRetryInterval' =
                            Smaller(Ceiling(resp[t]),
                                    StatusCodeRetryInterval
                                       + StatusCodeRetryIntervalIncrement)
                      /\ Ceiling(resp[t]) >= StatusCodeRetryInterval
                         => StatusCodeRetryInterval' >= StatusCodeRetryInterval
                      /\ Ceiling(resp[t]) < StatusCodeRetryInterval
                         => StatusCodeRetryInterval' = Ceiling(resp[t])
                /\ Delivered(resp[t])
                   => /\ StatusCodeRetryInterval' =
                            Larger(0, StatusCodeRetryInterval
                                         - StatusCodeRetryIntervalDecrement)
                      /\ StatusCodeRetryInterval >= 0
                         => StatusCodeRetryInterval' <= StatusCodeRetryInterval
       /\ StatusCodeRetryInterval' # StatusCodeRetryInterval
          => \E t \in SeqThreads : Adjusts(t)]_vars

\* Reached: a Send that started at an interval of 3950 ms has been answered
\* 429 with Retry-After: 2, and the interval is 2 seconds.
C16_Witness ==
    \E t \in SeqThreads :
        /\ pc[t] = "request"
        /\ hist[t] = << [code |-> 429, header |-> <<"2">>] >>
        /\ start[t] = 3950
        /\ StatusCodeRetryInterval = 2 * Second

\* The step in which the Send call of t sleeps, and the step in which it
\* returns.
Sleeps(t) == sleeps'[t] = sleeps[t] + 1
Returns(t) == pc[t] # "done" /\ pc'[t] = "done"

\* C17: for each response of a Send call the steps come in the order
\* request, recording (flag set), sleep, evaluation: a request is issued
\* only when every earlier response has been slept for; the recording and
\* the sleep come after the response and before any effect of its
\* evaluation; the sleep lasts the interval as it is then, which is the
\* interval that the adjustment for this response starts from; the
\* adjustment and the return come after the sleep. A Send that has returned
\* has slept once per response, whatever the last response was.
C17_SleepsOncePerResponse ==
    /\ [][\A t \in SeqThreads :
             /\ RequestAnswered(t) => sleeps[t] = Len(hist[t])
             /\ statusCodeMap' # statusCodeMap
                => /\ Len(hist[t]) = sleeps[t] + 1
                   /\ ~Sleeps(t)
             /\ Sleeps(t)
                => /\ Len(hist[t]) = sleeps[t] + 1
                   /\ debug => /\ resp[t].code \in DOMAIN statusCodeMap
                               /\ statusCodeMap[resp[t].code] > 0
                   /\ slept'[t] = StatusCodeRetryInterval
                   /\ errs[t] = <<>> /\ errs'[t] = <<>>
                   /\ UNCHANGED << StatusCodeRetryInterval, statusCodeMap >>
             /\ Adjusts(t)
                => /\ sleeps[t] = Len(hist[t])
                   /\ slept[t] = StatusCodeRetryInterval
             /\ (Returns(t) /\ Len(hist'[t]) > 0)
                => /\ sleeps'[t] = Len(hist'[t])
                   /\ ~Sleeps(t)]_vars
    /\ [](\A t \in SeqThreads : Returned(t) => sleeps[t] = Len(hist[t]))

\* Reached: a Send has returned after two 429s and a rejection, having
\* slept three times, the last time for the interval grown twice.
C17_Witness ==
    \E t \in SeqThreads :
        /\ Returned(t)
        /\ sleeps[t] = 3
        /\ Len(hist[t]) = 3
        /\ Rejected(hist[t][3])
        /\ slept[t] = start[t] + 2 * StatusCodeRetryIntervalIncrement

\* Where a thread and the goroutine ask for statusCodeLock, and where they
\* are inside a function that has taken it.
ThreadAsks(t) == pc[t] \in {"incr_lock", "start_lock"}
ThreadInside(t) == pc[t] \in {"incr", "start_body"}
GoroutineAsks == gpc \in {"report_lock", "reset_lock"}
GoroutineInside == gpc \in {"report", "reset"}

\* C18: in the final revision nobody asks for statusCodeLock while holding
\* it; the lock is held exactly while its holder is inside the function
\* that took it, and the step that leaves the function frees it; and under
\* fair scheduling everyone who asks for the lock gets it, unless the
\* process has ended in a fatal error meanwhile.
C18_NoWaitForever ==
    /\ [](\A t \in Threads :
            /\ ThreadAsks(t) => statusCodeLock # t
            /\ statusCodeLock = t <=> ThreadInside(t))
    /\ [](/\ GoroutineAsks => statusCodeLock # "goroutine"
          /\ statusCodeLock = "goroutine" <=> GoroutineInside)
    /\ [][/\ \A t \in Threads :
                (ThreadInside(t) /\ pc'[t] # pc[t]) => statusCodeLock' = "free"
          /\ (GoroutineInside /\ gpc' # gpc) => statusCodeLock' = "free"]_vars
    /\ \A t \in Threads : ThreadAsks(t) ~> (ThreadInside(t) \/ panicked)
    /\ GoroutineAsks ~> (GoroutineInside \/ panicked)

\* Reached: with telemetry enabled, one Send is inside incrementStatusCode
\* while another thread's StartTicker and the goroutine's report of a tick
\* both wait for the lock.
C18_Witness ==
    \E t, u \in Threads :
        /\ debug
        /\ pc[t] = "incr" /\ statusCodeLock = t
        /\ pc[u] = "start_lock"
        /\ gpc = "report_lock"

\* C19 as stated, in the form that a finite run refutes: in the revision of
\* src/main.go reportStatusCodes can always go on to reset the counts and
\* return: when the goroutine, inside reportStatusCodes, asks for
\* statusCodeLock at the head of resetStatusCodes, it is not itself the
\* holder (a holder that asks waits for ever, with every later
\* incrementStatusCode behind it).
C19_ReportReturns ==
    gpc = "main_reset_lock" => statusCodeLock # "goroutine"

\* C20 as stated, in the form that a finite run refutes: a StopTicker call
\* that has stopped the timer and waits to hand its signal over always has
\* a goroutine left to take it (the send on the unbuffered
\* statusCodeTickerDone returns only when the goroutine receives, and a
\* goroutine that has exited stays so), so that the call can return.
C20_StopTickerCanReturn ==
    \A t \in Threads : pc[t] = "stop_send" => gpc # "exited"

=============================================================================
